---- MODULE Spec2Model ----
(***************************************************************************)
(* A model of the Driftless example facts-collector plugin                 *)
(* (docs/developer/examples/plugins/python-facts-collector/plugin.py).     *)
(*                                                                         *)
(* One invocation of execute_facts_collector is followed from the call to  *)
(* the return, a step per block of the code.  What the operating system,   *)
(* psutil and the socket layer answer is chosen nondeterministically at    *)
(* the step that asks.  Python values are records tagged with their type,  *)
(* JSON texts are records tagged with their syntax.                        *)
(***************************************************************************)
EXTENDS Integers, Sequences, FiniteSets, TLC

VARIABLES
    HAS_PSUTIL,        \* module flag set by the import at load time
    pc,                \* position of the invocation
    name,              \* argument of execute_facts_collector
    config_json,       \* argument of execute_facts_collector (a JSON text)
    config,            \* the parsed configuration handed to a collector
    facts,             \* local of execute_system_info_collector
    include_loopback,  \* local of execute_network_interfaces_collector
    interfaces,        \* local of execute_network_interfaces_collector
    iterated,          \* adapter names the loop over net_if_addrs has visited
    s,                 \* the probe's socket: "unbound", "open" or "closed"
    env,               \* how each underlying source answered in this invocation
    ran,               \* the collector bodies this invocation entered
    probed,            \* whether the outbound probe was attempted
    result             \* the text execute_facts_collector returned

vars == <<HAS_PSUTIL, pc, name, config_json, config, facts, include_loopback,
          interfaces, iterated, s, env, ran, probed, result>>

-----------------------------------------------------------------------------
(* Bounds of the model.                                                    *)

\* adapters one psutil.net_if_addrs() answer holds
MaxAdapters == 2
\* address records one adapter holds
MaxAddrs == 1

-----------------------------------------------------------------------------
(* Python values.                                                          *)

PyNone == [type |-> "NoneType"]
PyBool(b) == [type |-> "bool", b |-> b]
PyInt(n) == [type |-> "int", n |-> n]
PyStr(str) == [type |-> "str", s |-> str]
PyList(q) == [type |-> "list", elems |-> q]
PyDict(f) == [type |-> "dict", items |-> f]

EmptyDict == [k \in {} |-> PyNone]

\* d[k] = v
SetItem(d, k, v) == [y \in (DOMAIN d) \cup {k} |-> IF y = k THEN v ELSE d[y]]

\* the truth value Python's `if` gives a value
Truthy(v) ==
    CASE v.type = "bool" -> v.b
      [] v.type = "int" -> v.n # 0
      [] v.type = "str" -> v.s # ""
      [] v.type = "list" -> v.elems # <<>>
      [] v.type = "dict" -> DOMAIN v.items # {}
      [] OTHER -> FALSE

\* str.startswith
StartsWith(str, prefix) ==
    /\ Len(str) >= Len(prefix)
    /\ SubSeq(str, 1, Len(prefix)) = prefix

-----------------------------------------------------------------------------
(* JSON texts.  A text is invalid, or a literal, or an object whose        *)
(* members are given by a function; a member of a configuration is the     *)
(* literal written for it.                                                 *)

JsonInvalid == [syntax |-> "invalid", members |-> EmptyDict]
JsonNull == [syntax |-> "null", members |-> EmptyDict]
JsonArray == [syntax |-> "array", members |-> EmptyDict]
JsonNumber == [syntax |-> "number", members |-> EmptyDict]
JsonObject(m) == [syntax |-> "object", members |-> m]

\* no text: nothing was returned yet
NoText == [syntax |-> "none", members |-> EmptyDict]
\* a text or value the running frame does not read again
Forgotten == [syntax |-> "forgotten", members |-> EmptyDict]

\* the literals a configuration member is written with
Literals == {"true", "false", "null", "\"no\""}

\* the value json.loads gives a literal
LiteralValue(lit) ==
    CASE lit = "true" -> PyBool(TRUE)
      [] lit = "false" -> PyBool(FALSE)
      [] lit = "null" -> PyNone
      [] lit = "\"no\"" -> PyStr("no")

\* the names the schemas of get_facts_collectors declare
OptionNames == {"include_cpu", "include_memory", "include_loopback"}

\* the configuration strings a host may hand over
ConfigStrings ==
    {JsonInvalid, JsonNull, JsonArray, JsonNumber}
        \cup {JsonObject(m) : m \in UNION {[K -> Literals] : K \in SUBSET OptionNames}}

\* an exception: its class and str(e)
Exc(cls, msg) == [cls |-> cls, msg |-> msg]

\* json.loads as a lenient parser would do it: a text that does not parse is {}
JsonLoadsLenient(text) ==
    IF text.syntax = "object"
    THEN [ok |-> TRUE, exc |-> Exc("", ""),
          value |-> PyDict([k \in DOMAIN text.members |-> LiteralValue(text.members[k])])]
    ELSE IF text.syntax = "null" THEN [ok |-> TRUE, exc |-> Exc("", ""), value |-> PyNone]
    ELSE IF text.syntax = "array"
    THEN [ok |-> TRUE, exc |-> Exc("", ""), value |-> PyList(<<"1">>)]
    ELSE IF text.syntax = "number" THEN [ok |-> TRUE, exc |-> Exc("", ""), value |-> PyInt(7)]
    ELSE [ok |-> TRUE, exc |-> Exc("", ""), value |-> PyDict(EmptyDict)]

\* json.loads: the value of a text, or the JSONDecodeError it raises
JsonLoads(text) ==
    IF text.syntax = "object"
    THEN [ok |-> TRUE, exc |-> Exc("", ""),
          value |-> PyDict([k \in DOMAIN text.members |-> LiteralValue(text.members[k])])]
    ELSE IF text.syntax = "null" THEN [ok |-> TRUE, exc |-> Exc("", ""), value |-> PyNone]
    ELSE IF text.syntax = "array"
    THEN [ok |-> TRUE, exc |-> Exc("", ""), value |-> PyList(<<"1">>)]
    ELSE IF text.syntax = "number" THEN [ok |-> TRUE, exc |-> Exc("", ""), value |-> PyInt(7)]
    ELSE [ok |-> FALSE, value |-> PyNone,
          exc |-> Exc("JSONDecodeError", "Expecting value: line 1 column 1 (char 0)")]

\* json.dumps of a dict
JsonDumps(d) == JsonObject(d)

-----------------------------------------------------------------------------
(* Enumeration.                                                            *)

\* get_facts_collectors: the descriptors, each option with its schema default
GetFactsCollectors ==
    << [name |-> "python_system_info",
        config_schema |-> [include_cpu |-> "true", include_memory |-> "true"]],
       [name |-> "python_network_interfaces",
        config_schema |-> [include_loopback |-> "false"]] >>

CollectorNames == {GetFactsCollectors[i].name : i \in DOMAIN GetFactsCollectors}

\* the names a host may ask for
Names == CollectorNames \cup {"Python_System_Info", "bogus"}

-----------------------------------------------------------------------------
(* The dispatcher.                                                         *)

\* an except clause that catches ValueError alone
ExceptValueError(e) == e.cls = "JSONDecodeError"

\* `except Exception`: every exception the calls below raise is one
ExceptException(e) == e.cls \in {"JSONDecodeError", "AttributeError", "OSError", "Error"}

\* {"error": message}
ErrorResult(message) == JsonDumps(SetItem(EmptyDict, "error", PyStr(message)))

\* config.get(key, default) raising when config is no dict
NoGet(v) == Exc("AttributeError", "'" \o v.type \o "' object has no attribute 'get'")

\* dict.get with the default dropped: a missing key reads as False
GetNoDefault(d, key, default) ==
    IF key \in DOMAIN d.items THEN d.items[key] ELSE PyBool(FALSE)

\* config.get(key, default) on a dict
Get(d, key, default) ==
    IF key \in DOMAIN d.items THEN d.items[key] ELSE default

\* An exception reaches the try of execute_facts_collector: the handler
\* returns the error document, or the exception leaves the call.
Raise(e) ==
    IF ExceptException(e)
    THEN /\ pc' = "returned"
         /\ result' = ErrorResult("Collector execution failed: " \o e.msg)
    ELSE /\ pc' = "raised"
         /\ result' = NoText

NoEnv == [cpu |-> "unused", memory |-> "unused", resolve |-> "unused",
          psutil |-> "unused", probe |-> "unused"]

\* execute_facts_collector up to the call of a collector
ExecuteFactsCollector(n, cj) ==
    /\ pc = "idle"
    /\ name' = n
    /\ config_json' = cj
    /\ UNCHANGED <<HAS_PSUTIL, facts, include_loopback, interfaces, iterated, s, env,
                   ran, probed>>
    /\ LET r == JsonLoads(cj) IN
       IF ~r.ok
       THEN Raise(r.exc) /\ UNCHANGED config
       ELSE IF n = "python_system_info"
       THEN pc' = "sys_cpu" /\ config' = r.value /\ UNCHANGED result
       ELSE IF n = "python_network_interfaces"
       THEN pc' = "net_config" /\ config' = r.value /\ UNCHANGED result
       ELSE /\ pc' = "returned"
            /\ result' = ErrorResult("Unknown collector: " \o n)
            /\ config' = r.value

-----------------------------------------------------------------------------
(* The system-info collector.                                              *)

\* {"error": message} as a value
ErrorInfo(message) == PyDict(SetItem(EmptyDict, "error", PyStr(message)))

\* the cpu category, by how psutil answered
CpuInfo(outcome) ==
    CASE outcome = "ok" ->
           PyDict([architecture |-> PyStr("platform.machine()"),
                   cores |-> PyInt(4),
                   physical_cores |-> PyInt(2),
                   cpu_percent |-> PyInt(7),
                   python_version |-> PyStr("platform.python_version()")])
      [] outcome = "raised" -> ErrorInfo("Failed to collect CPU info: " \o "psutil.Error")
      [] outcome = "missing" ->
           PyDict([architecture |-> PyStr("platform.machine()"),
                   cores |-> PyStr("psutil not available"),
                   python_version |-> PyStr("platform.python_version()")])

\* the memory category with the failure of the query left out of the document
MemoryInfoNoError(outcome) ==
    CASE outcome = "ok" ->
           PyDict([total_gb |-> PyInt(16), available_gb |-> PyInt(8),
                   used_gb |-> PyInt(8), used_percent |-> PyInt(50)])
      [] outcome = "raised" -> PyDict(EmptyDict)
      [] outcome = "missing" -> ErrorInfo("psutil not available for memory collection")

\* the memory category, by how psutil answered
MemoryInfo(outcome) ==
    CASE outcome = "ok" ->
           PyDict([total_gb |-> PyInt(16), available_gb |-> PyInt(8),
                   used_gb |-> PyInt(8), used_percent |-> PyInt(50)])
      [] outcome = "raised" ->
           ErrorInfo("Failed to collect memory info: " \o "psutil.Error")
      [] outcome = "missing" -> ErrorInfo("psutil not available for memory collection")

\* how a psutil query can answer
QueryOutcomes == IF HAS_PSUTIL THEN {"ok", "raised"} ELSE {"missing"}

\* facts = {} and the include_cpu block
SysCpu ==
    /\ pc = "sys_cpu"
    /\ ran' = ran \cup {"python_system_info"}
    /\ UNCHANGED <<HAS_PSUTIL, name, config_json, config, include_loopback, interfaces,
                   iterated, s, probed>>
    /\ IF config.type # "dict"
       THEN Raise(NoGet(config)) /\ UNCHANGED <<facts, env>>
       ELSE /\ pc' = "sys_memory"
            /\ UNCHANGED result
            /\ IF Truthy(Get(config, "include_cpu", PyBool(TRUE)))
               THEN \E o \in QueryOutcomes :
                        /\ facts' = SetItem(EmptyDict, "cpu", CpuInfo(o))
                        /\ env' = [env EXCEPT !.cpu = o]
               ELSE facts' = EmptyDict /\ UNCHANGED env

\* the include_memory block
SysMemory ==
    /\ pc = "sys_memory"
    /\ pc' = "sys_timestamp"
    /\ UNCHANGED <<HAS_PSUTIL, name, config_json, config, include_loopback, interfaces,
                   iterated, s, probed, ran, result>>
    /\ IF Truthy(Get(config, "include_memory", PyBool(TRUE)))
       THEN \E o \in QueryOutcomes :
                /\ facts' = SetItem(facts, "memory", MemoryInfo(o))
                /\ env' = [env EXCEPT !.memory = o]
       ELSE UNCHANGED <<facts, env>>

\* the timestamp and the return
SysTimestamp ==
    /\ pc = "sys_timestamp"
    /\ pc' = "returned"
    /\ facts' = SetItem(facts, "timestamp", PyStr("datetime.utcnow().isoformat()" \o "Z"))
    /\ result' = JsonDumps(facts')
    /\ UNCHANGED <<HAS_PSUTIL, name, config_json, config, include_loopback, interfaces,
                   iterated, s, env, ran, probed>>

-----------------------------------------------------------------------------
(* The network-interfaces collector.                                       *)

\* a configuration the frame does not read again
ForgottenConfig == [type |-> "forgotten"]

\* the addresses getaddrinfo may report for the hostname
ResolvableAddrs == {"127.0.0.1", "10.0.0.5"}

\* the adapter names psutil may report
AdapterNames == {"lo", "eth0", "Loopback Pseudo-Interface 1"}

\* the address records psutil may report for an adapter
AddrRecords ==
    {[family |-> "AF_INET", address |-> "127.0.0.1"],
     [family |-> "AF_INET6", address |-> "fe80::1"],
     [family |-> "AF_LINK", address |-> "aa:bb:cc:dd:ee:ff"]}

\* the address lists of an adapter
AddrLists == UNION {[1..n -> AddrRecords] : n \in 0..MaxAddrs}

\* what net_if_stats holds for an adapter: nothing, or its link state
StatsOutcomes == {"absent", "up", "down"}

\* the local addresses getsockname may read back
ProbeAddrs == {"10.0.0.5", "127.0.0.1"}

\* the orders list(set(...)) may give the elements of S
ListsOf(S) ==
    {q \in [1..Cardinality(S) -> S] : {q[i] : i \in DOMAIN q} = S}

\* include_loopback = config.get("include_loopback", False); interfaces = {}
NetConfig ==
    /\ pc = "net_config"
    /\ ran' = ran \cup {"python_network_interfaces"}
    /\ UNCHANGED <<HAS_PSUTIL, name, facts, iterated, s, env, probed>>
    /\ IF config.type # "dict"
       THEN Raise(NoGet(config)) /\ UNCHANGED <<config_json, config, include_loopback,
                                                interfaces>>
       ELSE /\ pc' = "net_hostname"
            /\ include_loopback' = Get(config, "include_loopback", PyBool(FALSE))
            /\ interfaces' = EmptyDict
            /\ config' = ForgottenConfig
            /\ config_json' = Forgotten
            /\ UNCHANGED result

\* the generator filter of the hostname addresses
KeepHostAddr(addr, incl) == addr \notin {"127.0.0.1", "::1"} \/ Truthy(incl)

\* the hostname block
NetHostname ==
    /\ pc = "net_hostname"
    /\ pc' = "net_psutil"
    /\ UNCHANGED <<HAS_PSUTIL, name, config_json, config, facts, include_loopback,
                   iterated, s, ran, probed, result>>
    /\ \/ \* socket has no getaddrinfo or no gethostname
          /\ env' = [env EXCEPT !.resolve = "unavailable"]
          /\ UNCHANGED interfaces
       \/ \* gethostname raises
          /\ env' = [env EXCEPT !.resolve = "hostname_raised"]
          /\ interfaces' = SetItem(interfaces, "hostname", PyStr("error: " \o "OSError"))
       \/ \* getaddrinfo raises
          /\ env' = [env EXCEPT !.resolve = "getaddrinfo_raised"]
          /\ interfaces' = SetItem(SetItem(interfaces, "hostname", PyStr("node1")),
                                   "hostname_ips", PyList(<<>>))
       \/ \* getaddrinfo answers
          \E A \in SUBSET ResolvableAddrs :
            \E q \in ListsOf({a \in A : KeepHostAddr(a, include_loopback)}) :
              /\ env' = [env EXCEPT !.resolve = "ok"]
              /\ interfaces' = SetItem(SetItem(interfaces, "hostname", PyStr("node1")),
                                       "hostname_ips", PyList(q))

\* `not include_loopback and interface_name.startswith(('lo', 'Loopback'))`
SkipAdapter(interface_name, incl) ==
    /\ ~Truthy(incl)
    /\ StartsWith(interface_name, "lo") \/ StartsWith(interface_name, "Loopback")

\* the addresses of the AF_INET and AF_INET6 records, in order
AddressesOf(addrs) ==
    LET kept == SelectSeq(addrs, LAMBDA a : a.family \in {"AF_INET", "AF_INET6"})
    IN [i \in DOMAIN kept |-> kept[i].address]

\* the address of the last AF_LINK record, or None
MacOf(addrs) ==
    LET link == SelectSeq(addrs, LAMBDA a : a.family = "AF_LINK")
    IN IF link = <<>> THEN PyNone ELSE PyStr(link[Len(link)].address)

\* interface_info with the link state copied as psutil gives it, a boolean
InterfaceInfoRawStatus(addrs, stats) ==
    LET base == [addresses |-> PyList(AddressesOf(addrs)),
                 mac |-> MacOf(addrs),
                 status |-> PyStr("unknown")]
    IN IF stats = "absent"
       THEN PyDict(base)
       ELSE PyDict(SetItem(SetItem(base, "status", PyBool(stats = "up")),
                           "mtu", PyInt(1500)))

\* interface_info of one adapter
InterfaceInfo(addrs, stats) ==
    LET base == [addresses |-> PyList(AddressesOf(addrs)),
                 mac |-> MacOf(addrs),
                 status |-> PyStr("unknown")]
    IN IF stats = "absent"
       THEN PyDict(base)
       ELSE PyDict(SetItem(SetItem(base, "status",
                                   PyStr(IF stats = "up" THEN "up" ELSE "down")),
                           "mtu", PyInt(1500)))

\* the psutil block up to the loop
NetPsutil ==
    /\ pc = "net_psutil"
    /\ UNCHANGED <<HAS_PSUTIL, name, config_json, config, facts, include_loopback,
                   iterated, s, ran, probed, result>>
    /\ IF ~HAS_PSUTIL
       THEN /\ pc' = "net_fallback"
            /\ env' = [env EXCEPT !.psutil = "missing"]
            /\ UNCHANGED interfaces
       ELSE \/ \* net_if_addrs or net_if_stats raises
               /\ pc' = "net_fallback"
               /\ env' = [env EXCEPT !.psutil = "raised"]
               /\ interfaces' = SetItem(interfaces, "psutil_error", PyStr("psutil.Error"))
            \/ \* both answer
               /\ pc' = "net_loop"
               /\ env' = [env EXCEPT !.psutil = "ok"]
               /\ UNCHANGED interfaces

\* one pass of the loop over net_if_addrs.items()
NetAdapter(interface_name, addrs, stats) ==
    /\ pc = "net_loop"
    /\ interface_name \notin iterated
    /\ Cardinality(iterated) < MaxAdapters
    /\ iterated' = iterated \cup {interface_name}
    /\ interfaces' = IF SkipAdapter(interface_name, include_loopback)
                     THEN interfaces
                     ELSE SetItem(interfaces, interface_name, InterfaceInfo(addrs, stats))
    /\ UNCHANGED <<HAS_PSUTIL, pc, name, config_json, config, facts, include_loopback,
                   s, env, ran, probed, result>>

\* the loop is over
NetLoopEnd ==
    /\ pc = "net_loop"
    /\ pc' = "net_fallback"
    /\ UNCHANGED <<HAS_PSUTIL, name, config_json, config, facts, include_loopback,
                   interfaces, iterated, s, env, ran, probed, result>>

\* `not HAS_PSUTIL or len(interfaces) <= 2`
FallbackNeeded(has, ifs) == ~has \/ Cardinality(DOMAIN ifs) <= 2

\* A socket the code did not close when the frame that held it is gone: a
\* reference-counting runtime reclaims and closes it at once, another
\* runtime leaves it open until its collector runs.
UnclosedAtReturn == {"open", "closed"}

\* interfaces["primary_interface"]
PrimaryInterface(local_ip) ==
    PyDict([addresses |-> PyList(<<local_ip>>),
            mac |-> PyStr("unknown (psutil not available)"),
            status |-> PyStr("up")])

\* The fallback block and the return.  Every call inside the outer try of
\* execute_network_interfaces_collector that can raise sits in an inner
\* handler, so the outer handler (lines 206-209) is never entered.
NetFallback ==
    /\ pc = "net_fallback"
    /\ pc' = "returned"
    /\ UNCHANGED <<HAS_PSUTIL, name, config_json, config, facts, include_loopback,
                   iterated, ran>>
    /\ IF FallbackNeeded(HAS_PSUTIL, interfaces)
       THEN /\ probed' = TRUE
            /\ \/ \* socket.socket raises: s is never bound
                  /\ s' = "unbound"
                  /\ env' = [env EXCEPT !.probe = "socket_raised"]
                  /\ interfaces' = SetItem(interfaces, "network_info",
                         PyStr("Limited network info available (psutil not installed)"))
               \/ \* s.connect raises: the handler runs, s.close() does not
                  /\ s' \in UnclosedAtReturn
                  /\ env' = [env EXCEPT !.probe = "connect_raised"]
                  /\ interfaces' = SetItem(interfaces, "network_info",
                         PyStr("Limited network info available (psutil not installed)"))
               \/ \* s.getsockname raises: the handler runs, s.close() does not
                  /\ s' \in UnclosedAtReturn
                  /\ env' = [env EXCEPT !.probe = "getsockname_raised"]
                  /\ interfaces' = SetItem(interfaces, "network_info",
                         PyStr("Limited network info available (psutil not installed)"))
               \/ \* the probe answers and s.close() runs
                  \E local_ip \in ProbeAddrs :
                    /\ s' = "closed"
                    /\ env' = [env EXCEPT !.probe = "ok"]
                    /\ interfaces' = SetItem(interfaces, "primary_interface",
                                             PrimaryInterface(local_ip))
       ELSE UNCHANGED <<interfaces, s, env, probed>>
    /\ result' = JsonDumps(interfaces')

\* The runtime's collector reclaims the socket of a probe that failed and
\* closes it.
Finalize ==
    /\ pc = "returned"
    /\ s = "open"
    /\ s' = "closed"
    /\ UNCHANGED <<HAS_PSUTIL, pc, name, config_json, config, facts, include_loopback,
                   interfaces, iterated, env, ran, probed, result>>

-----------------------------------------------------------------------------
(* The host takes the result; the frames of the invocation are gone.       *)

Release ==
    /\ pc = "returned"
    /\ pc' = "idle"
    /\ name' = ""
    /\ config_json' = NoText
    /\ config' = PyNone
    /\ facts' = EmptyDict
    /\ include_loopback' = PyNone
    /\ interfaces' = EmptyDict
    /\ iterated' = {}
    /\ s' = "unbound"
    /\ env' = NoEnv
    /\ ran' = {}
    /\ probed' = FALSE
    /\ result' = NoText
    /\ UNCHANGED HAS_PSUTIL

Init ==
    /\ HAS_PSUTIL \in BOOLEAN
    /\ pc = "idle"
    /\ name = ""
    /\ config_json = NoText
    /\ config = PyNone
    /\ facts = EmptyDict
    /\ include_loopback = PyNone
    /\ interfaces = EmptyDict
    /\ iterated = {}
    /\ s = "unbound"
    /\ env = NoEnv
    /\ ran = {}
    /\ probed = FALSE
    /\ result = NoText

Next ==
    \/ \E n \in Names, cj \in ConfigStrings : ExecuteFactsCollector(n, cj)
    \/ SysCpu
    \/ SysMemory
    \/ SysTimestamp
    \/ NetConfig
    \/ NetHostname
    \/ NetPsutil
    \/ \E ifn \in AdapterNames, addrs \in AddrLists, st \in StatsOutcomes :
          NetAdapter(ifn, addrs, st)
    \/ NetLoopEnd
    \/ NetFallback
    \/ Finalize
    \/ Release

Spec == Init /\ [][Next]_vars

-----------------------------------------------------------------------------
(* What the properties below read off a state.                             *)

\* execute_facts_collector has returned
Returned == pc = "returned"

\* the returned text is an ErrorResult: {"error": <string>}
IsErrorResult(text) ==
    /\ text.syntax = "object"
    /\ DOMAIN text.members = {"error"}
    /\ text.members["error"].type = "str"

\* the returned text is a JSON object whose members json.dumps can write
WellFormed(text) ==
    /\ text.syntax = "object"
    /\ \A k \in DOMAIN text.members :
         text.members[k].type \in {"NoneType", "bool", "int", "str", "list", "dict"}

\* the system-info collector ran to its return
SysReturned ==
    /\ Returned
    /\ name = "python_system_info"
    /\ "timestamp" \in DOMAIN facts

\* the network-interfaces collector ran to its return at line 204
NetReturned ==
    /\ Returned
    /\ name = "python_network_interfaces"
    /\ config = ForgottenConfig

\* option k of the configuration text is unset or written as true
TrueOrUnset(k) ==
    k \notin DOMAIN config_json.members \/ config_json.members[k] = "true"

\* the literals Python reads as false
FalsyLiterals == {"false", "null", "0", "0.0", "\"\"", "[]", "{}"}

\* option k of the configuration text is unset or written as a value Python reads as true
TruthyOrUnset(k) ==
    k \notin DOMAIN config_json.members \/ config_json.members[k] \notin FalsyLiterals

\* the keys of category c of the returned document
CategoryKeys(c) == DOMAIN result.members[c].items

\* v is {addresses: [string], mac: string or None, status: up/down/unknown, mtu?: int}
IsInterfaceRecord(v) ==
    /\ v.type = "dict"
    /\ {"addresses", "mac", "status"} \subseteq DOMAIN v.items
    /\ DOMAIN v.items \subseteq {"addresses", "mac", "status", "mtu"}
    /\ v.items["addresses"].type = "list"
    /\ \A i \in DOMAIN v.items["addresses"].elems : v.items["addresses"].elems[i] \in STRING
    /\ v.items["mac"].type \in {"NoneType", "str"}
    /\ v.items["status"].type = "str"
    /\ v.items["status"].s \in {"up", "down", "unknown"}
    /\ "mtu" \in DOMAIN v.items => v.items["mtu"].type = "int"

\* v is an entry whose address list is exactly ["127.0.0.1"]
IsLoopbackOnly(v) ==
    /\ v.type = "dict"
    /\ "addresses" \in DOMAIN v.items
    /\ v.items["addresses"] = PyList(<<"127.0.0.1">>)

\* psutil reported an adapter with a loopback name
LoopbackAdapterSeen ==
    \E n \in iterated : StartsWith(n, "lo") \/ StartsWith(n, "Loopback")

\* hostname resolution failed or gave no address
ResolveFailed ==
    \/ env.resolve \in {"unavailable", "hostname_raised", "getaddrinfo_raised"}
    \/ env.resolve = "ok" /\ interfaces["hostname_ips"] = PyList(<<>>)

-----------------------------------------------------------------------------
(* The claims.                                                             *)

\* C1: whatever the name, the configuration string and the failures of the
\* sources, no exception leaves execute_facts_collector, and what it returns
\* is a well-formed JSON object, an ErrorResult when it carries the key error.
C1_AlwaysWellFormed ==
    /\ pc # "raised"
    /\ Returned =>
         /\ WellFormed(result)
         /\ "error" \in DOMAIN result.members => IsErrorResult(result)

\* C1 witness: a known collector given JSON that is no object raised inside
\* the collector, and the call returned an ErrorResult.
C1_Witness ==
    /\ Returned
    /\ name = "python_network_interfaces"
    /\ config_json = JsonNull
    /\ "python_network_interfaces" \in ran
    /\ IsErrorResult(result)

\* C2: a name get_facts_collectors does not return gives exactly
\* {"error": "Unknown collector: <name>"}, whatever the configuration string.
C2_UnknownNameAnyConfig ==
    Returned /\ name \notin CollectorNames =>
        result = ErrorResult("Unknown collector: " \o name)

\* C3: a known collector given a configuration that does not parse returns an
\* ErrorResult whose message starts "Collector execution failed: ", and no
\* collector body ran.
C3_MalformedConfig ==
    Returned /\ name \in CollectorNames /\ config_json.syntax = "invalid" =>
        /\ IsErrorResult(result)
        /\ StartsWith(result.members["error"].s, "Collector execution failed: ")
        /\ ran = {}

\* C3 witness: the system-info collector was called with text that is no JSON.
C3_Witness ==
    /\ Returned
    /\ name = "python_system_info"
    /\ config_json = JsonInvalid
    /\ IsErrorResult(result)

\* C4 as claimed: the system-info document has cpu exactly when include_cpu is
\* true or unset, memory exactly when include_memory is true or unset, and
\* always timestamp.
C4_KeysWhenTrueOrUnset ==
    SysReturned =>
        /\ "cpu" \in DOMAIN result.members <=> TrueOrUnset("include_cpu")
        /\ "memory" \in DOMAIN result.members <=> TrueOrUnset("include_memory")
        /\ "timestamp" \in DOMAIN result.members

\* C4 amended: the system-info document has cpu exactly when include_cpu is
\* unset or a value Python reads as true, memory likewise for include_memory,
\* and always timestamp.
C4_KeysWhenTruthyOrUnset ==
    SysReturned =>
        /\ "cpu" \in DOMAIN result.members <=> TruthyOrUnset("include_cpu")
        /\ "memory" \in DOMAIN result.members <=> TruthyOrUnset("include_memory")
        /\ "timestamp" \in DOMAIN result.members

\* C4 witness: {include_cpu: true, include_memory: false} gave cpu and
\* timestamp and no memory.
C4_Witness ==
    /\ SysReturned
    /\ config_json = JsonObject([include_cpu |-> "true", include_memory |-> "false"])
    /\ DOMAIN result.members = {"cpu", "timestamp"}

C6_NoLoopbackOnlyEntry ==
    NetReturned /\ include_loopback = PyBool(FALSE) =>
        \A k \in DOMAIN result.members : ~IsLoopbackOnly(result.members[k])

\* C7: with include_loopback true and no loopback adapter reported, the
\* network document has an entry with addresses ["127.0.0.1"], no MAC and
\* status "up".
C7_SynthesizedLoopback ==
    NetReturned /\ include_loopback = PyBool(TRUE) /\ ~LoopbackAdapterSeen =>
        \E k \in DOMAIN result.members :
            /\ IsLoopbackOnly(result.members[k])
            /\ result.members[k].items["mac"] = PyNone
            /\ result.members[k].items["status"] = PyStr("up")

\* C8 as claimed: every entry of the network document is an interface record.
C8_OnlyInterfaceRecords ==
    NetReturned =>
        \A k \in DOMAIN result.members : IsInterfaceRecord(result.members[k])

\* C8 amended: every entry of the network document is an interface record,
\* or one of hostname (a string), hostname_ips (a list), psutil_error
\* (a string), network_info (a string).
C8_RecordsAndMetadata ==
    NetReturned =>
        \A k \in DOMAIN result.members :
            \/ IsInterfaceRecord(result.members[k])
            \/ k \in {"hostname", "psutil_error", "network_info"}
                 /\ result.members[k].type = "str"
            \/ k = "hostname_ips" /\ result.members[k].type = "list"

\* C8 witness: the document holds an adapter with its link state beside the
\* hostname entries.
C8_Witness ==
    /\ NetReturned
    /\ {"eth0", "hostname", "hostname_ips"} \subseteq DOMAIN result.members
    /\ "mtu" \in DOMAIN result.members["eth0"].items

\* C9: when the enumeration is unavailable or raises and hostname resolution
\* fails or gives no address, the probe is attempted; and when the probe
\* fails the document explains that network information is limited and is
\* no ErrorResult.
C9_FallbackChain ==
    NetReturned =>
        /\ env.psutil \in {"missing", "raised"} /\ ResolveFailed => probed
        /\ env.probe \in {"socket_raised", "connect_raised", "getsockname_raised"} =>
             /\ "network_info" \in DOMAIN result.members
             /\ "error" \notin DOMAIN result.members

\* C10: once the invocation has returned, the socket its probe opened is
\* not open.
C10_SocketClosedOnReturn == Returned => s # "open"

====
